---- MODULE Spec2Model ----
(***************************************************************************)
(* Model of the summup summarizers (src/src/summarizer.py and its adapter  *)
(* subclasses): text normalisation, sentence packing into chunks, and the  *)
(* per-chunk dispatch to the chat-completion backend.                      *)
(*                                                                         *)
(* A Python str is modelled as a sequence of symbols.  Every symbol is one *)
(* character, except LongWord, which stands for a run of LongWordLen word  *)
(* characters (so that texts longer than the default chunk size of 3000    *)
(* characters can be written down); len() adds up the widths.              *)
(***************************************************************************)
EXTENDS Integers, Sequences, FiniteSets, TLC

VARIABLES
    pc,                 \* position of the running call
    text,               \* raw text handed to preprocess_and_chunk_text / self.text
    cleaned_transcript, \* local of preprocess_and_chunk_text after line 62
    cleaned_again,      \* result of the rules applied to cleaned_transcript
    sentences,          \* local `sentences` (line 65)
    MAX_CHUNK_LENGTH,   \* local MAX_CHUNK_LENGTH (line 68)
    current_chunk,      \* local current_chunk (line 70)
    idx,                \* position of the for loop of line 71 in `sentences`
    chunks,             \* local `chunks` / self.chunks
    variant,            \* the class being constructed
    method,             \* self.method
    env_key,            \* OPENAI_API_KEY in the environment after load_dotenv()
    api_key,            \* openai.api_key
    full_summary,       \* local full_summary (the list of fragments)
    calls,              \* the ChatCompletion.create invocations made so far
    summary,            \* <<>> until summarize() returns, then <<returned str>>
    error,              \* the exception that left the running call, or "none"
    summary_txt         \* <<>> until summary.txt is written, then <<content>>

vars == <<pc, text, cleaned_transcript, cleaned_again, sentences,
          MAX_CHUNK_LENGTH, current_chunk, idx, chunks, variant, method,
          env_key, api_key, full_summary, calls, summary, error, summary_txt>>

(***************************************************************************)
(* Bounds of the model.                                                    *)
(***************************************************************************)
MaxTextLen == 3      \* longest raw text of the normalisation specification
MaxSentLen == 3      \* longest sentence handed to the packing loop
MaxSentences == 3    \* most sentences handed to the packing loop
MaxBound == 12       \* largest chunk_size tried by the packing specification
MaxPieces == 3       \* most pieces of an adapter text of the run specification
LongWordLen == 1499  \* number of characters the symbol LongWord stands for

(***************************************************************************)
(* Python str primitives.                                                  *)
(***************************************************************************)
LongWord == "x*"
NonAsciiLetter == "U+00E9"

Width(c) == IF c = LongWord THEN LongWordLen ELSE 1

RECURSIVE len(_)
len(s) == IF s = <<>> THEN 0 ELSE Width(Head(s)) + len(Tail(s))

\* \s of the re module and the separators of str.split() / str.strip()
IsSpace(c) == c \in {" ", "\n"}

\* \w of the re module on a str pattern: Unicode letters, digits, underscore
IsWord(c) ==
    c \notin {" ", "\n", ".", "?", "!", ",", "[", "]", "(", ")", "<", ">"}

\* [\x00-\x7F]
IsAscii(c) == c # NonAsciiLetter

RECURSIVE lstrip(_)
lstrip(s) == IF s # <<>> /\ IsSpace(Head(s)) THEN lstrip(Tail(s)) ELSE s

RECURSIVE rstrip(_)
rstrip(s) ==
    IF s # <<>> /\ IsSpace(s[Len(s)]) THEN rstrip(SubSeq(s, 1, Len(s) - 1)) ELSE s

strip(s) == lstrip(rstrip(s))

\* index of the first whitespace symbol of s, or Len(s) + 1
WordEnd(s) ==
    IF \E i \in 1..Len(s) : IsSpace(s[i])
    THEN CHOOSE i \in 1..Len(s) : IsSpace(s[i]) /\ \A j \in 1..(i - 1) : ~IsSpace(s[j])
    ELSE Len(s) + 1

RECURSIVE split(_)
split(s) ==
    LET t == lstrip(s) IN
    IF t = <<>> THEN <<>>
    ELSE <<SubSeq(t, 1, WordEnd(t) - 1)>> \o split(SubSeq(t, WordEnd(t), Len(t)))

RECURSIVE join(_, _)
join(sep, list) ==
    IF list = <<>> THEN <<>>
    ELSE IF Len(list) = 1 THEN list[1]
    ELSE list[1] \o sep \o join(sep, Tail(list))

(***************************************************************************)
(* The rules of lines 56-62.                                               *)
(***************************************************************************)
\* position in s of the first `close` that no line break precedes, or 0:
\* where the lazy .*? (which does not match "\n") followed by `close` ends
CloseAt(s, close) ==
    IF \E i \in 1..Len(s) : s[i] = close /\ \A j \in 1..(i - 1) : s[j] # "\n"
    THEN CHOOSE i \in 1..Len(s) :
            /\ s[i] = close
            /\ \A j \in 1..(i - 1) : s[j] # "\n" /\ s[j] # close
    ELSE 0

\* re.sub(open .*? close, '', s)
RECURSIVE sub_span(_, _, _)
sub_span(open, close, s) ==
    IF s = <<>> THEN <<>>
    ELSE IF Head(s) = open /\ CloseAt(Tail(s), close) > 0
         THEN sub_span(open, close,
                       SubSeq(Tail(s), CloseAt(Tail(s), close) + 1, Len(Tail(s))))
         ELSE <<Head(s)>> \o sub_span(open, close, Tail(s))

\* re.sub(r'\n+', ' ', s)
RECURSIVE sub_linebreaks(_)
sub_linebreaks(s) ==
    IF s = <<>> THEN <<>>
    ELSE IF Head(s) = "\n"
         THEN IF Len(s) > 1 /\ s[2] = "\n" THEN sub_linebreaks(Tail(s))
              ELSE <<" ">> \o sub_linebreaks(Tail(s))
         ELSE <<Head(s)>> \o sub_linebreaks(Tail(s))

\* re.sub(r'[^\w\s\.\?\!]', '', s)
sub_symbols(s) ==
    SelectSeq(s, LAMBDA c : IsWord(c) \/ IsSpace(c) \/ c \in {".", "?", "!"})

\* re.sub(r'[^\x00-\x7F]+', '', s)
sub_non_ascii(s) == SelectSeq(s, IsAscii)

\* stopwords.words('english'), restricted to the words the model can spell
stop_words == {<<"a">>, <<"i", "s">>}

\* ' '.join([word for word in s.split() if word not in stop_words])
drop_stop_words(s) == join(<<" ">>, SelectSeq(split(s), LAMBDA w : w \notin stop_words))

\* the stop words dropped before the symbols are stripped
normalize_stop_words_first(s) ==
    sub_non_ascii(sub_symbols(sub_linebreaks(
        drop_stop_words(sub_span("<", ">", sub_span("(", ")", sub_span("[", "]", s)))))))

\* cleaned_transcript of line 62, from `text`
normalize(s) ==
    drop_stop_words(sub_non_ascii(sub_symbols(sub_linebreaks(
        sub_span("<", ">", sub_span("(", ")", sub_span("[", "]", s)))))))

(***************************************************************************)
(* Specification of the normalisation: any raw text over TextAlphabet.     *)
(***************************************************************************)
TextAlphabet ==
    {"[", "]", "(", ")", "<", ">", "\n", " ", "a", ".", ",", NonAsciiLetter}

SeqsUpTo(S, n) == UNION {[1..k -> S] : k \in 0..n}

Texts == SeqsUpTo(TextAlphabet, MaxTextLen)

\* no summarizer object exists
NotRunning ==
    /\ variant = "none" /\ method = "none" /\ env_key = "None" /\ api_key = "None"
    /\ full_summary = <<>> /\ calls = <<>> /\ summary = <<>> /\ error = "none"
    /\ summary_txt = <<>>

\* the packing loop has not started
NotPacking ==
    /\ sentences = <<>> /\ MAX_CHUNK_LENGTH = 0 /\ current_chunk = <<>>
    /\ idx = 1 /\ chunks = <<>>

InitNorm ==
    /\ pc = "start"
    /\ text \in Texts
    /\ cleaned_transcript = <<>>
    /\ cleaned_again = <<>>
    /\ NotPacking
    /\ NotRunning

\* lines 56-62 on the raw text
Preprocess ==
    /\ pc = "start"
    /\ cleaned_transcript' = normalize(text)
    /\ pc' = "cleaned"
    /\ UNCHANGED <<text, cleaned_again, sentences, MAX_CHUNK_LENGTH, current_chunk,
                   idx, chunks, variant, method, env_key, api_key, full_summary,
                   calls, summary, error, summary_txt>>

\* lines 56-62 on their own output
PreprocessAgain ==
    /\ pc = "cleaned"
    /\ cleaned_again' = normalize(cleaned_transcript)
    /\ pc' = "recleaned"
    /\ UNCHANGED <<text, cleaned_transcript, sentences, MAX_CHUNK_LENGTH,
                   current_chunk, idx, chunks, variant, method, env_key, api_key,
                   full_summary, calls, summary, error, summary_txt>>

NextNorm == Preprocess \/ PreprocessAgain

SpecNorm == InitNorm /\ [][NextNorm]_vars

\* C9: the normalisation rules are idempotent (applying them to their own
\* output changes nothing), and an empty or whitespace-only text is cleaned to
\* the empty string.
C9_NormalizeIdempotent ==
    /\ pc = "recleaned" => cleaned_again = cleaned_transcript
    /\ (pc # "start" /\ strip(text) = <<>>) => cleaned_transcript = <<>>

\* C9 witness: a text that the rules change (a stop word next to a stripped
\* symbol) has been cleaned twice.
C9_Witness ==
    /\ pc = "recleaned"
    /\ text = <<"a", ",", ".">>
    /\ cleaned_transcript = <<"a", ".">>

(***************************************************************************)
(* The packing loop of lines 67-87.                                        *)
(***************************************************************************)
\* a Python value that is an int or a str
PyInt(n) == [type |-> "int", int |-> n, str |-> ""]
PyStr(s) == [type |-> "str", int |-> 0, str |-> s]

\* the test of line 72 with the sentence alone, the buffer forgotten
fits_ignoring_buffer(buffer, sentence, bound) == len(sentence) + 1 <= bound

\* the test of line 72 with < for <=
fits_strictly(buffer, sentence, bound) == len(buffer) + len(sentence) + 1 < bound

\* line 72: len(current_chunk) + len(sentence) + 1 <= MAX_CHUNK_LENGTH
fits(buffer, sentence, bound) == len(buffer) + len(sentence) + 1 <= bound

\* line 74 without the separator
add_sentence_unseparated(buffer, sentence) == buffer \o sentence

\* line 74: current_chunk += sentence + ' '
add_sentence(buffer, sentence) == buffer \o sentence \o <<" ">>

\* line 78: current_chunk = sentence + ' '
start_chunk(sentence) == sentence \o <<" ">>

\* line 85 left out
keep_all_chunks(list) == list

\* line 85: chunks = [chunk for chunk in chunks if chunk]
remove_empty_chunks(list) == SelectSeq(list, LAMBDA chunk : chunk # <<>>)

\* lines 72-78, one iteration of the for loop on the state st of the locals;
\* comparing an int with a str raises TypeError
loop_body(st, sentence, chunk_size) ==
    IF chunk_size.type # "int"
    THEN [st EXCEPT !.error = "TypeError"]
    ELSE IF fits(st.current_chunk, sentence, chunk_size.int)
         THEN [st EXCEPT !.current_chunk = add_sentence(@, sentence)]
         ELSE [st EXCEPT !.chunks = Append(@, strip(st.current_chunk)),
                         !.current_chunk = start_chunk(sentence)]

\* lines 81-87: the last chunk, the empty chunks removed
last_chunk_added(list, buffer) ==
    remove_empty_chunks(IF buffer # <<>> THEN Append(list, strip(buffer)) ELSE list)

(***************************************************************************)
(* Specification of the packing loop: any sentences, any integer bound.    *)
(***************************************************************************)
\* sentences as sent_tokenize returns them from a cleaned text: not empty,
\* no leading or trailing whitespace, words separated by single spaces
Sentences ==
    {s \in SeqsUpTo({"b", " "}, MaxSentLen) : s # <<>> /\ join(<<" ">>, split(s)) = s}

SentenceOne ==
    <<"T", "h", "i", "s", " ", "i", "s", " ", "s", "e", "n", "t", "e", "n", "c", "e",
      " ", "o", "n", "e", ".">>
SentenceTwo ==
    <<"T", "h", "i", "s", " ", "i", "s", " ", "s", "e", "n", "t", "e", "n", "c", "e",
      " ", "t", "w", "o", ".">>
SentenceThree ==
    <<"T", "h", "i", "s", " ", "i", "s", " ", "a", " ", "t", "h", "i", "r", "d", " ",
      "s", "e", "n", "t", "e", "n", "c", "e", ".">>

\* the three sentences of the example, as written and as lines 56-62 leave them
ExampleSentences == <<SentenceOne, SentenceTwo, SentenceThree>>
ExampleCleaned == <<normalize(SentenceOne), normalize(SentenceTwo), normalize(SentenceThree)>>

InitPack ==
    /\ pc = "loop"
    /\ \/ /\ sentences \in SeqsUpTo(Sentences, MaxSentences)
          /\ MAX_CHUNK_LENGTH \in (0 - 1)..MaxBound
       \/ /\ sentences \in {ExampleSentences, ExampleCleaned}
          /\ MAX_CHUNK_LENGTH = 30
    /\ chunks = <<>>
    /\ current_chunk = <<>>
    /\ idx = 1
    /\ text = <<>> /\ cleaned_transcript = <<>> /\ cleaned_again = <<>>
    /\ NotRunning

\* lines 71-78: the loop takes the next sentence
ForSentence ==
    /\ pc = "loop"
    /\ idx <= Len(sentences)
    /\ LET st == loop_body([chunks |-> chunks, current_chunk |-> current_chunk,
                            error |-> "none"],
                           sentences[idx], PyInt(MAX_CHUNK_LENGTH))
       IN /\ chunks' = st.chunks
          /\ current_chunk' = st.current_chunk
    /\ idx' = idx + 1
    /\ UNCHANGED <<pc, text, cleaned_transcript, cleaned_again, sentences,
                   MAX_CHUNK_LENGTH, variant, method, env_key, api_key,
                   full_summary, calls, summary, error, summary_txt>>

\* lines 80-87: the loop is over, the chunks are returned
ReturnChunks ==
    /\ pc = "loop"
    /\ idx > Len(sentences)
    /\ chunks' = last_chunk_added(chunks, current_chunk)
    /\ pc' = "returned"
    /\ UNCHANGED <<text, cleaned_transcript, cleaned_again, sentences,
                   MAX_CHUNK_LENGTH, current_chunk, idx, variant, method, env_key,
                   api_key, full_summary, calls, summary, error, summary_txt>>

NextPack == ForSentence \/ ReturnChunks

SpecPack == InitPack /\ [][NextPack]_vars

\* the ways of cutting a sequence into consecutive non-empty groups
RECURSIVE Groupings(_)
Groupings(list) ==
    IF list = <<>> THEN {<<>>}
    ELSE UNION {{<<SubSeq(list, 1, k)>> \o g : g \in Groupings(SubSeq(list, k + 1, Len(list)))}
                : k \in 1..Len(list)}

\* a grouping of the sentences whose groups, joined by single spaces, are the chunks
IsPacking(g) ==
    /\ Len(g) = Len(chunks)
    /\ \A i \in 1..Len(g) : chunks[i] = join(<<" ">>, g[i])

\* C1: every returned chunk is within the bound, or is one sentence that is
\* itself longer than the bound.
C1_ChunkWithinBoundOrOneSentence ==
    pc = "returned" =>
        \E g \in Groupings(sentences) :
            /\ IsPacking(g)
            /\ \A i \in 1..Len(g) :
                \/ len(chunks[i]) <= MAX_CHUNK_LENGTH
                \/ Len(g[i]) = 1 /\ len(g[i][1]) > MAX_CHUNK_LENGTH

\* C1 witness: a sentence longer than the bound, between two that fit, was
\* returned as a chunk of its own.
C1_Witness ==
    /\ pc = "returned"
    /\ Len(sentences) = 3
    /\ chunks = sentences
    /\ len(chunks[1]) < MAX_CHUNK_LENGTH
    /\ len(chunks[2]) > MAX_CHUNK_LENGTH
    /\ len(chunks[3]) < MAX_CHUNK_LENGTH

\* C2: the returned chunks hold every sentence once and in order: they are a
\* grouping of the sentences, and joined by single spaces they are the
\* sentences joined by single spaces.
C2_ChunksReproduceSentences ==
    pc = "returned" =>
        /\ \E g \in Groupings(sentences) : IsPacking(g)
        /\ join(<<" ">>, chunks) = join(<<" ">>, sentences)

\* C2 witness: three sentences were returned in two chunks.
C2_Witness ==
    /\ pc = "returned"
    /\ Len(sentences) = 3
    /\ Len(chunks) = 2
    /\ sentences[1] # sentences[2]
    /\ chunks[1] = sentences[1]
    /\ chunks[2] = join(<<" ">>, <<sentences[2], sentences[3]>>)

\* the sentences of the open buffer with the next one, joined by single spaces
JoinedWithNext == strip(current_chunk \o sentences[idx])

\* the loop appended the sentence to the open buffer
Appended ==
    /\ current_chunk' = current_chunk \o sentences[idx] \o <<" ">>
    /\ chunks' = chunks

\* the loop closed the open buffer and started a new one with the sentence
Closed ==
    /\ chunks' = Append(chunks, strip(current_chunk))
    /\ current_chunk' = sentences[idx] \o <<" ">>

\* C3 as stated: a sentence is appended whenever the buffer joined to it by a
\* single space is no longer than max_len, so two sentences whose join is
\* exactly max_len long are returned in one chunk.
C3_AppendedWhenJoinFits ==
    (pc = "returned" /\ Len(sentences) >= 2
        /\ len(join(<<" ">>, <<sentences[1], sentences[2]>>)) = MAX_CHUNK_LENGTH)
    => (chunks # <<>>
        /\ Len(chunks[1]) >= Len(sentences[1]) + 1 + Len(sentences[2])
        /\ SubSeq(chunks[1], 1, Len(sentences[1]) + 1 + Len(sentences[2]))
             = join(<<" ">>, <<sentences[1], sentences[2]>>))

\* C3 amended: a sentence is appended exactly when the buffer joined to it by a
\* single space is strictly shorter than max_len (the test counts the trailing
\* separator), and otherwise the buffer is closed and a new one started with
\* it; the three sentences of the example with max_len = 30 are returned as
\* three one-sentence chunks.
C3_AppendedWhenJoinShorter ==
    /\ [][(pc = "loop" /\ idx' = idx + 1) =>
            IF len(JoinedWithNext) < MAX_CHUNK_LENGTH THEN Appended ELSE Closed]_vars
    /\ []((pc = "returned" /\ sentences \in {ExampleSentences, ExampleCleaned})
            => chunks = sentences)

\* C3 witness: two sentences whose join is one shorter than the bound were
\* returned in one chunk, and the next sentence in a chunk of its own.
C3_Witness ==
    /\ pc = "returned"
    /\ Len(sentences) = 3
    /\ len(join(<<" ">>, <<sentences[1], sentences[2]>>)) = MAX_CHUNK_LENGTH - 1
    /\ chunks = <<join(<<" ">>, <<sentences[1], sentences[2]>>), sentences[3]>>

\* C4: no returned chunk is the empty string.
C4_NoEmptyChunk ==
    pc = "returned" => \A i \in 1..Len(chunks) : chunks[i] # <<>>

\* C4 witness: the first sentence was longer than the bound, so the loop
\* closed the still empty buffer, and the chunks were returned.
C4_Witness ==
    /\ pc = "returned"
    /\ sentences # <<>>
    /\ len(sentences[1]) > MAX_CHUNK_LENGTH
    /\ chunks # <<>>
    /\ chunks[1] = sentences[1]

(***************************************************************************)
(* The summarizer objects: construction, summarize(), the backend calls.   *)
(***************************************************************************)
\* chunk_size=3000, the default of preprocess_and_chunk_text
DefaultChunkSize == 3000

\* sent_tokenize(s) is NLTK's: it cuts only after a sentence-ending symbol
\* that whitespace follows, and whether it cuts there rests on its trained
\* abbreviation model, so every choice of cuts is possible.  The places it
\* may cut:
Boundaries(s) ==
    {i \in 1..(Len(s) - 1) : s[i] \in {".", "?", "!"} /\ IsSpace(s[i + 1])}

\* the k-th smallest member of the set of positions B
Nth(B, k) == CHOOSE x \in B : Cardinality({y \in B : y < x}) = k - 1

\* s cut after the positions of B, each piece stripped
CutAfter(s, B) ==
    LET n == Cardinality(B)
        from(k) == IF k = 1 THEN 1 ELSE Nth(B, k - 1) + 1
        to(k) == IF k = n + 1 THEN Len(s) ELSE Nth(B, k)
    IN SelectSeq([k \in 1..(n + 1) |-> strip(SubSeq(s, from(k), to(k)))],
                 LAMBDA piece : piece # <<>>)

\* the results sent_tokenize(s) may have
sent_tokenize(s) ==
    IF strip(s) = <<>> THEN {<<>>}
    ELSE {CutAfter(s, B) : B \in SUBSET Boundaries(s)}

\* lines 71-78: the for loop over the sentences, left at the first exception
RECURSIVE pack_loop(_, _, _)
pack_loop(st, list, chunk_size) ==
    IF list = <<>> \/ st.error # "none" THEN st
    ELSE pack_loop(loop_body(st, Head(list), chunk_size), Tail(list), chunk_size)

\* preprocess_and_chunk_text(raw, chunk_size): its possible outcomes, each the
\* sentences found, the chunks returned and the exception raised if any
preprocess_and_chunk_text(raw, chunk_size) ==
    {LET st == pack_loop([chunks |-> <<>>, current_chunk |-> <<>>, error |-> "none"],
                         list, chunk_size)
     IN [sentences |-> list,
         error |-> st.error,
         chunks |-> IF st.error # "none" THEN <<>>
                    ELSE last_chunk_added(st.chunks, st.current_chunk)]
     : list \in sent_tokenize(normalize(raw))}

\* the test of summarize() inverted
is_not_openai(m) == m # "openai"

\* lines 122 / arxiv 94: self.method == 'openai'
is_openai(m) == m = "openai"

\* os.getenv with a built-in fallback key
getenv_or_default(env) == IF env = "None" THEN "sk-default" ELSE env

\* line 97: openai.api_key = os.getenv('OPENAI_API_KEY')
getenv_api_key(env) == env

\* the fragment put in front of the list
prepend_content(list, content) == <<content>> \o list

\* line 108: full_summary.append(content)
append_content(list, content) == Append(list, content)

(***************************************************************************)
(* Specification of a run: one object of one class is constructed on an    *)
(* adapter text and summarize() is called on it.                           *)
(***************************************************************************)
Variants ==
    {"Summarizer", "PDFSummarizer", "arxiv_summarizer", "VideoSummarizer",
     "WebpageSummarizer"}

Methods == {"openai", "transformers"}

\* what a text is put together from: a sentence of LongWordLen + 1 characters,
\* a short sentence, a stop word, a line break
Pieces == {<<LongWord, ".">>, <<"b", "?">>, <<"a">>, <<"\n">>}

AdapterTexts == {join(<<" ">>, p) : p \in SeqsUpTo(Pieces, MaxPieces)}

\* what the backend may answer
Fragments == {<<"y">>, <<"z", ".">>}

Init ==
    /\ pc = "new"
    /\ text \in AdapterTexts
    /\ variant \in Variants
    /\ method \in Methods
    /\ env_key \in {"None", "sk-env"}
    /\ api_key = "None"
    /\ cleaned_transcript = <<>> /\ cleaned_again = <<>>
    /\ NotPacking
    /\ full_summary = <<>> /\ calls = <<>> /\ summary = <<>> /\ error = "none"
    /\ summary_txt = <<>>

\* self.chunks = self.preprocess_and_chunk_text(self.text, <chunk_size>), the
\* last statement of every __init__
Constructed(chunk_size) ==
    /\ pc = "new"
    /\ \E r \in preprocess_and_chunk_text(text, chunk_size) :
        /\ sentences' = r.sentences
        /\ chunks' = r.chunks
        /\ error' = r.error
        /\ pc' = IF r.error = "none" THEN "constructed" ELSE "raised"
    /\ UNCHANGED <<text, cleaned_transcript, cleaned_again, MAX_CHUNK_LENGTH,
                   current_chunk, idx, variant, method, env_key, api_key,
                   full_summary, calls, summary, summary_txt>>

SummarizerInit ==
    variant = "Summarizer" /\ Constructed(PyInt(DefaultChunkSize))

PDFSummarizerInit ==
    variant = "PDFSummarizer" /\ Constructed(PyInt(DefaultChunkSize))

ArxivSummarizerInit ==
    variant = "arxiv_summarizer" /\ Constructed(PyInt(DefaultChunkSize))

\* preprocess_and_chunk_text(self.text, self.method)
VideoSummarizerInit ==
    variant = "VideoSummarizer" /\ Constructed(PyStr(method))

\* preprocess_and_chunk_text(self.text, self.method)
WebpageSummarizerInit ==
    variant = "WebpageSummarizer" /\ Constructed(PyStr(method))

\* summarize() up to the for loop of the method it calls: the method is
\* tested, the key read from the environment, the list of fragments emptied
SummarizeCalled ==
    /\ pc = "constructed"
    /\ IF is_openai(method)
       THEN /\ api_key' = getenv_api_key(env_key)
            /\ pc' = "dispatch"
            /\ error' = error
       ELSE /\ api_key' = api_key
            /\ pc' = "raised"
            /\ error' = "ValueError"
    /\ full_summary' = <<>>
    /\ UNCHANGED <<text, cleaned_transcript, cleaned_again, sentences,
                   MAX_CHUNK_LENGTH, current_chunk, idx, chunks, variant, method,
                   env_key, calls, summary, summary_txt>>

\* Summarizer.summarize, which the PDF, video and webpage classes inherit
Summarize == variant # "arxiv_summarizer" /\ SummarizeCalled

\* arxiv_summarizer.summarize
ArxivSummarize == variant = "arxiv_summarizer" /\ SummarizeCalled

\* the system message of the request
SystemMessage == IF variant = "arxiv_summarizer" THEN "research assistant" ELSE "summarizer tool"

\* the request for the next chunk
NextRequest == [system |-> SystemMessage, chunk |-> chunks[Len(full_summary) + 1]]

\* a failed call whose exception is dropped and the loop carried on
ChatCompletionRaisesSwallowed ==
    /\ pc = "dispatch"
    /\ Len(full_summary) < Len(chunks)
    /\ calls' = Append(calls, [request |-> NextRequest, ok |-> FALSE, content |-> <<>>])
    /\ full_summary' = append_content(full_summary, <<>>)
    /\ UNCHANGED <<pc, error, text, cleaned_transcript, cleaned_again, sentences,
                   MAX_CHUNK_LENGTH, current_chunk, idx, chunks, variant, method,
                   env_key, api_key, summary, summary_txt>>

\* one iteration of the for loop: openai.ChatCompletion.create answers, and
\* the content is appended.  Without a key the library answers no call.
ChatCompletionReturns ==
    /\ pc = "dispatch"
    /\ Len(full_summary) < Len(chunks)
    /\ api_key # "None"
    /\ \E content \in Fragments :
        /\ calls' = Append(calls, [request |-> NextRequest, ok |-> TRUE, content |-> content])
        /\ full_summary' = append_content(full_summary, content)
    /\ UNCHANGED <<pc, error, text, cleaned_transcript, cleaned_again, sentences,
                   MAX_CHUNK_LENGTH, current_chunk, idx, chunks, variant, method,
                   env_key, api_key, summary, summary_txt>>

\* one iteration of the for loop: openai.ChatCompletion.create raises; nothing
\* catches the exception, which leaves summarize()
ChatCompletionRaises ==
    /\ pc = "dispatch"
    /\ Len(full_summary) < Len(chunks)
    /\ calls' = Append(calls, [request |-> NextRequest, ok |-> FALSE, content |-> <<>>])
    /\ error' = IF api_key = "None" THEN "AuthenticationError" ELSE "APIError"
    /\ pc' = "raised"
    /\ UNCHANGED <<text, cleaned_transcript, cleaned_again, sentences,
                   MAX_CHUNK_LENGTH, current_chunk, idx, chunks, variant, method,
                   env_key, api_key, full_summary, summary, summary_txt>>

\* the loop is over: the fragments are joined and returned
Joined ==
    /\ pc = "dispatch"
    /\ Len(full_summary) = Len(chunks)
    /\ summary' = <<join(<<" ">>, full_summary)>>
    /\ pc' = "returned"
    /\ UNCHANGED <<error, text, cleaned_transcript, cleaned_again, sentences,
                   MAX_CHUNK_LENGTH, current_chunk, idx, chunks, variant, method,
                   env_key, api_key, full_summary, calls>>

\* Summarizer._summarize_with_openai returns, and summarize() with it
SummarizeReturns ==
    /\ variant # "arxiv_summarizer"
    /\ Joined
    /\ summary_txt' = summary_txt

\* arxiv_summarizer._summarize_with_gpt returns; summarize() writes
\* summary.txt and returns
ArxivSummarizeReturns ==
    /\ variant = "arxiv_summarizer"
    /\ Joined
    /\ summary_txt' = summary'

Next ==
    \/ SummarizerInit
    \/ PDFSummarizerInit
    \/ ArxivSummarizerInit
    \/ VideoSummarizerInit
    \/ WebpageSummarizerInit
    \/ Summarize
    \/ ArxivSummarize
    \/ ChatCompletionReturns
    \/ ChatCompletionRaises
    \/ SummarizeReturns
    \/ ArxivSummarizeReturns

Spec == Init /\ [][Next]_vars

\* the exceptions a backend call raises
BackendErrors == {"AuthenticationError", "APIError"}

\* the run is over: summarize() has returned or an exception has left it
Over == pc \in {"returned", "raised"}

\* C5 as stated: on a text that is cleaned to nothing, a run with the openai
\* method ends with an error and never returns a summary.
C5_EmptyInputRaises ==
    (normalize(text) = <<>> /\ method = "openai" /\ Over) => pc = "raised"

\* C5 amended: on a text that is cleaned to nothing the chunk list is empty
\* and the backend is never invoked; with the openai method nothing is raised
\* and summarize() returns the empty string (which arxiv_summarizer writes to
\* summary.txt); the only error is the ValueError of an invalid method.
C5_EmptyInputReturnsEmptySummary ==
    normalize(text) = <<>> =>
        /\ calls = <<>>
        /\ pc # "new" => chunks = <<>>
        /\ pc = "raised" => (method # "openai" /\ error = "ValueError")
        /\ pc = "returned" => (method = "openai" /\ summary = << <<>> >>)
        /\ summary_txt # <<>> => summary_txt = << <<>> >>

\* C5 witness: summarize() has returned on a whitespace-only text.
C5_Witness ==
    /\ pc = "returned"
    /\ text # <<>>
    /\ strip(text) = <<>>
    /\ summary = << <<>> >>
    /\ calls = <<>>

\* C6: a run that returns has invoked the backend once per chunk, in chunk
\* order and with that chunk alone; the fragments are the backend's answers
\* in that order, and the summary is the fragments joined by single spaces.
C6_OneCallPerChunkInOrder ==
    pc = "returned" =>
        /\ Len(calls) = Len(chunks)
        /\ Len(full_summary) = Len(chunks)
        /\ \A i \in 1..Len(chunks) :
            /\ calls[i].ok
            /\ calls[i].request.chunk = chunks[i]
            /\ full_summary[i] = calls[i].content
        /\ summary = <<join(<<" ">>, [i \in 1..Len(calls) |-> calls[i].content])>>

\* C6 witness: a run over three chunks has returned, the backend's first two
\* answers differing.
C6_Witness ==
    /\ pc = "returned"
    /\ Len(chunks) = 3
    /\ calls[1].content = <<"z", ".">>
    /\ calls[2].content = <<"y">>
    /\ summary = << <<"z", ".", " ", "y", " ", "y">> >>

\* C7: a failed call is the last call made, its error ends the run, and
\* nothing is returned or written then; a summary is returned or written only
\* after the call of every chunk has succeeded.
C7_AllOrNothing ==
    /\ \A i \in 1..Len(calls) : ~calls[i].ok =>
            /\ i = Len(calls)
            /\ pc = "raised"
            /\ error \in BackendErrors
    /\ pc = "raised" => (summary = <<>> /\ summary_txt = <<>>)
    /\ (summary # <<>> \/ summary_txt # <<>>) =>
            /\ pc = "returned"
            /\ Len(calls) = Len(chunks)
            /\ \A i \in 1..Len(calls) : calls[i].ok

\* C7 witness: the call of the third chunk of an arxiv_summarizer failed
\* after two fragments were collected.
C7_Witness ==
    /\ pc = "raised"
    /\ variant = "arxiv_summarizer"
    /\ Len(chunks) = 3
    /\ Len(full_summary) = 2
    /\ Len(calls) = 3
    /\ summary_txt = <<>>

\* C8 as stated: with the openai method and no key in the environment, no
\* backend invocation has been made at the moment summarize() raises.
C8_NoKeyFailsBeforeDispatch ==
    (method = "openai" /\ env_key = "None" /\ pc = "raised" /\ error # "TypeError")
        => calls = <<>>

\* C8 amended: with the openai method and no key in the environment nothing
\* tests the key before the loop: the absent key is assigned, and the error is
\* the one the backend invocation of the first chunk raises, so exactly one
\* invocation has been made when it is raised and no fragment is collected;
\* a run with no chunk makes no invocation and returns without error.
C8_NoKeyFailsInFirstCall ==
    (method = "openai" /\ env_key = "None") =>
        /\ (pc = "raised" /\ error # "TypeError") =>
                /\ error = "AuthenticationError"
                /\ Len(calls) = 1
                /\ calls[1].request.chunk = chunks[1]
                /\ full_summary = <<>>
        /\ pc = "returned" => (chunks = <<>> /\ calls = <<>>)
        /\ Len(calls) <= 1

\* C8 witness: without a key, the call of the first of three chunks raised.
C8_Witness ==
    /\ pc = "raised"
    /\ env_key = "None"
    /\ method = "openai"
    /\ Len(chunks) = 3
    /\ Len(calls) = 1
    /\ error = "AuthenticationError"

\* C10: whatever the class and the method, constructing the object on a text
\* with at least one sentence raises nothing and leaves chunks that are
\* within the default bound or are one over-long sentence.
C10_EveryVariantChunks ==
    (pc # "new" /\ sentences # <<>>) =>
        /\ error # "TypeError"
        /\ \E g \in Groupings(sentences) :
            /\ IsPacking(g)
            /\ \A i \in 1..Len(g) :
                \/ len(chunks[i]) <= DefaultChunkSize
                \/ Len(g[i]) = 1 /\ len(g[i][1]) > DefaultChunkSize

====
